---------------------------- MODULE Spec2Model ----------------------------
(***************************************************************************)
(* rust-signatures: print-imposition layout for an inclusive page range.   *)
(* The model follows src/src/lib.rs: get_signature_key, get_signatures,    *)
(* DocumentInfo::new and parse_args.  Every function of the library is     *)
(* pure; the state of the model is one call: its arguments and what it     *)
(* returned.                                                               *)
(***************************************************************************)
EXTENDS Integers, Sequences, FiniteSets, TLC

VARIABLES
    op,                      \* the function called
    pc,                      \* "call": about to be called, "return": it has returned,
                             \* "panic": it panicked
    signature_i,             \* get_signature_key: its argument
    key,                     \* get_signature_key: the String it returned
    first_page_of_document,  \* get_signatures: first argument
    num_pages,               \* get_signatures: second argument; DocumentInfo.num_pages
    num_signatures,          \* get_signatures: third argument; DocumentInfo.num_signatures
    first_number,            \* DocumentInfo::new: first argument
    second_number,           \* DocumentInfo::new: second argument
    num_sheets,              \* DocumentInfo.num_sheets
    all_args,                \* parse_args: its argument
    result,                  \* parse_args: the Result it returned
    overflowed               \* DocumentInfo::new: the u32 expression that overflowed, or "none"

vars == <<op, pc, signature_i, key, first_page_of_document, num_pages, num_signatures,
          first_number, second_number, num_sheets, all_args, result, overflowed>>

-----------------------------------------------------------------------------
(* Bounds of the model.                                                    *)

MaxIndex == 730         \* signature indices 0..MaxIndex (past 702, the first 3-letter key)
MaxPage == 64           \* DocumentInfo::new: page numbers 1..MaxPage
MaxFirstPage == 6       \* get_signatures: first_page_of_document in 1..MaxFirstPage
MaxNumPages == 40       \* get_signatures: num_pages in 1..MaxNumPages
MaxNumSignatures == 4   \* get_signatures: num_signatures in 0..MaxNumSignatures
MaxArgLen == 2          \* parse_args: arguments of at most MaxArgLen characters
MaxBelowTop == 20       \* SpecU32: last pages u32::MAX - MaxBelowTop .. u32::MAX
MaxExcess == 9          \* SpecBig, SpecHuge: signatures past 2^24 (2^28) pages

-----------------------------------------------------------------------------
(* Constants of the program.                                               *)

DOC_PAGES_PER_SHEET == 4
DOC_PAGES_PER_SIGNATURE == 16
ALPHABET == << "A", "B", "C", "D", "E", "F", "G", "H", "I", "J", "K", "L", "M",
               "N", "O", "P", "Q", "R", "S", "T", "U", "V", "W", "X", "Y", "Z" >>

\* f32 carries 24 significant binary digits (f32::MANTISSA_DIGITS).
F32_MANTISSA_DIGITS == 24

-----------------------------------------------------------------------------
(* Helpers for Rust's library operations.                                  *)

RECURSIVE Pow(_, _)
Pow(b, e) == IF e = 0 THEN 1 ELSE b * Pow(b, e - 1)

\* number of binary digits of n > 0
RECURSIVE BitLen(_)
BitLen(n) == IF n < 2 THEN 1 ELSE 1 + BitLen(n \div 2)

\* key.chars().rev().collect()
Reverse(s) == [k \in 1..Len(s) |-> s[Len(s) + 1 - k]]

\* `n as f32` for a u32 n: the nearest value with F32_MANTISSA_DIGITS
\* significant binary digits, ties to the even significand.
AsF32(n) ==
    IF n < Pow(2, F32_MANTISSA_DIGITS) THEN n
    ELSE LET ulp == Pow(2, BitLen(n) - F32_MANTISSA_DIGITS)
             q   == n \div ulp
             r   == n % ulp
         IN  IF 2 * r < ulp \/ (2 * r = ulp /\ q % 2 = 0)
             THEN q * ulp
             ELSE (q + 1) * ulp

\* (n as f32 / d as f32).ceil() as u32, for d a power of two: the quotient of
\* the two f32 values is exact, ceil() rounds it up to a whole number.
CeilOfF32Quotient(n, d) ==
    LET x == AsF32(n)
        y == AsF32(d)
    IN  IF x % y = 0 THEN x \div y ELSE (x \div y) + 1

-----------------------------------------------------------------------------
(* get_signature_key                                                       *)

\* key_loop with the `i = i - 1` of line 156 left out (plain base 26)
RECURSIVE key_loop_no_decrement(_, _)
key_loop_no_decrement(i, k) ==
    LET remainder == i % Len(ALPHABET)
        pushed    == Append(k, ALPHABET[remainder + 1])
        divided   == i \div Len(ALPHABET)
    IN  IF divided = 0 THEN pushed ELSE key_loop_no_decrement(divided, pushed)

\* the loop: push ALPHABET[remainder..remainder + 1], divide, stop at 0,
\* otherwise subtract one and go round again
RECURSIVE key_loop(_, _)
key_loop(i, k) ==
    LET remainder == i % Len(ALPHABET)
        pushed    == Append(k, ALPHABET[remainder + 1])
        divided   == i \div Len(ALPHABET)
    IN  IF divided = 0 THEN pushed ELSE key_loop(divided - 1, pushed)

\* get_signature_key returning `key` as pushed, without .rev()
get_signature_key_not_reversed(i) == key_loop(i, << >>)

get_signature_key(i) == Reverse(key_loop(i, << >>))

-----------------------------------------------------------------------------
(* get_signatures                                                          *)

\* Signature with last_page never cut back to the last page of the document
Signature_not_truncated(first_page, pages, i) ==
    [ first_page    |-> (DOC_PAGES_PER_SIGNATURE * i) + first_page,
      last_page     |-> ((i + 1) * DOC_PAGES_PER_SIGNATURE) + first_page - 1,
      signature_key |-> get_signature_key(i) ]

\* one iteration of the for loop: the Signature pushed for index i
Signature(first_page, pages, i) ==
    LET last_page_of_document  == first_page + pages - 1
        last_page_of_signature == ((i + 1) * DOC_PAGES_PER_SIGNATURE) + first_page - 1
    IN  [ first_page    |-> (DOC_PAGES_PER_SIGNATURE * i) + first_page,
          last_page     |-> IF last_page_of_signature < last_page_of_document
                            THEN last_page_of_signature
                            ELSE last_page_of_document,
          signature_key |-> get_signature_key(i) ]

\* get_signatures looping over 0..=num_signatures
get_signatures_inclusive(first_page, pages, signatures_wanted) ==
    [i \in 0..signatures_wanted |-> Signature(first_page, pages, i)]

\* the Vec the loop `for i in 0..num_signatures` builds, indexed from 0 as in Rust
get_signatures(first_page, pages, signatures_wanted) ==
    [i \in 0..(signatures_wanted - 1) |-> Signature(first_page, pages, i)]

\* The Vec<Signature> returned by the last get_signatures call (also
\* DocumentInfo.signatures, which DocumentInfo::new sets from that call).
signatures == get_signatures(first_page_of_document, num_pages, num_signatures)

-----------------------------------------------------------------------------
(* parse_args.  A String is a sequence of characters.                      *)

DigitChars == << "0", "1", "2", "3", "4", "5", "6", "7", "8", "9" >>
IsDigit(c) == \E d \in 1..Len(DigitChars) : DigitChars[d] = c
DigitValue(c) == (CHOOSE d \in 1..Len(DigitChars) : DigitChars[d] = c) - 1

\* u32::MAX = 4294967295, digit by digit
U32_MAX_DIGITS == << 4, 2, 9, 4, 9, 6, 7, 2, 9, 5 >>

RECURSIVE StripZeros(_)
StripZeros(digits) ==
    IF digits # << >> /\ Head(digits) = "0" THEN StripZeros(Tail(digits)) ELSE digits

\* the number written by `digits` is above u32::MAX
ExceedsU32(digits) ==
    LET sig == StripZeros(digits)
    IN  \/ Len(sig) > Len(U32_MAX_DIGITS)
        \/ /\ Len(sig) = Len(U32_MAX_DIGITS)
           /\ \E n \in 1..Len(sig) :
                /\ \A m \in 1..(n - 1) : DigitValue(sig[m]) = U32_MAX_DIGITS[m]
                /\ DigitValue(sig[n]) > U32_MAX_DIGITS[n]

\* the digit loop of u32::from_str: result = result * 10 + digit, left to right
RECURSIVE AccumulateDigits(_, _)
AccumulateDigits(digits, acc) ==
    IF digits = << >> THEN acc
    ELSE AccumulateDigits(Tail(digits), (acc * 10) + DigitValue(Head(digits)))

\* str::parse::<u32>(): an empty string, a lone sign, a character that is no
\* digit (a leading '-' counts as one for an unsigned type; one leading '+' is
\* skipped) and a number above u32::MAX are errors.
ParseU32(str) ==
    IF str = << >> THEN [ok |-> FALSE, error |-> "Empty"]
    ELSE IF str = << "+" >> \/ str = << "-" >> THEN [ok |-> FALSE, error |-> "InvalidDigit"]
    ELSE LET digits == IF Head(str) = "+" THEN Tail(str) ELSE str
         IN  IF \E n \in 1..Len(digits) : ~IsDigit(digits[n])
             THEN [ok |-> FALSE, error |-> "InvalidDigit"]
             ELSE IF ExceedsU32(digits)
             THEN [ok |-> FALSE, error |-> "PosOverflow"]
             ELSE [ok |-> TRUE, value |-> AccumulateDigits(digits, 0)]

\* parse_args with second_arg parsed before first_arg
parse_args_second_parsed_first(args_given) ==
    IF Len(args_given) < 1 THEN [kind |-> "panic"]
    ELSE LET args == Tail(args_given)
         IN  IF Len(args) < 2
             THEN [kind |-> "NeedTwoArgumentsError", received_args |-> args_given]
             ELSE LET first  == ParseU32(args[1])
                      second == ParseU32(args[2])
                  IN  IF ~second.ok
                      THEN [kind |-> "ParseIntError", of |-> "second_arg", error |-> second.error]
                      ELSE IF ~first.ok
                      THEN [kind |-> "ParseIntError", of |-> "first_arg", error |-> first.error]
                      ELSE IF first.value = 0
                      THEN [kind |-> "PageZeroError"]
                      ELSE IF second.value < first.value
                      THEN [kind |-> "SecondNumberGreaterError",
                            first_number |-> first.value, second_number |-> second.value]
                      ELSE [kind |-> "Ok", value |-> << first.value, second.value >>]

\* parse_args with `second_number <= first_number` for the last check
parse_args_equal_rejected(args_given) ==
    IF Len(args_given) < 1 THEN [kind |-> "panic"]
    ELSE LET args == Tail(args_given)
         IN  IF Len(args) < 2
             THEN [kind |-> "NeedTwoArgumentsError", received_args |-> args_given]
             ELSE LET first  == ParseU32(args[1])
                      second == ParseU32(args[2])
                  IN  IF ~first.ok
                      THEN [kind |-> "ParseIntError", of |-> "first_arg", error |-> first.error]
                      ELSE IF ~second.ok
                      THEN [kind |-> "ParseIntError", of |-> "second_arg", error |-> second.error]
                      ELSE IF first.value = 0
                      THEN [kind |-> "PageZeroError"]
                      ELSE IF second.value <= first.value
                      THEN [kind |-> "SecondNumberGreaterError",
                            first_number |-> first.value, second_number |-> second.value]
                      ELSE [kind |-> "Ok", value |-> << first.value, second.value >>]

\* parse_args(all_args): the Result returned, or "panic" when the slice
\* &all_args[1..] of an empty vector is out of range.  A ParseIntError records
\* which of the two `?` returned it.
parse_args(args_given) ==
    IF Len(args_given) < 1 THEN [kind |-> "panic"]
    ELSE LET args == Tail(args_given)
         IN  IF Len(args) < 2
             THEN [kind |-> "NeedTwoArgumentsError", received_args |-> args_given]
             ELSE LET first  == ParseU32(args[1])
                      second == ParseU32(args[2])
                  IN  IF ~first.ok
                      THEN [kind |-> "ParseIntError", of |-> "first_arg", error |-> first.error]
                      ELSE IF ~second.ok
                      THEN [kind |-> "ParseIntError", of |-> "second_arg", error |-> second.error]
                      ELSE IF first.value = 0
                      THEN [kind |-> "PageZeroError"]
                      ELSE IF second.value < first.value
                      THEN [kind |-> "SecondNumberGreaterError",
                            first_number |-> first.value, second_number |-> second.value]
                      ELSE [kind |-> "Ok", value |-> << first.value, second.value >>]

-----------------------------------------------------------------------------
(* State machine: the initial state holds the arguments of one call         *)
(* (pc = "call"), the action makes the call (pc = "return").               *)

\* the variables a call does not use
NoKeyCall == signature_i = 0 /\ key = << >>
NoSignaturesCall == first_page_of_document = 0 /\ num_pages = 0 /\ num_signatures = 0
NoDocumentInfo == first_number = 0 /\ second_number = 0 /\ num_sheets = 0
NoParseArgs == all_args = << >> /\ result = [kind |-> "none"]

Calling(f) == op = f /\ pc = "call"
Returned(f) == op = f /\ pc = "return"

\* get_signature_key(signature_i)
InitKey ==
    /\ Calling("get_signature_key")
    /\ overflowed = "none"
    /\ signature_i \in 0..MaxIndex
    /\ key = << >>
    /\ NoSignaturesCall /\ NoDocumentInfo /\ NoParseArgs

GetSignatureKey ==
    /\ Calling("get_signature_key")
    /\ pc' = "return"
    /\ UNCHANGED overflowed
    /\ key' = get_signature_key(signature_i)
    /\ UNCHANGED <<op, signature_i, first_page_of_document, num_pages, num_signatures,
                   first_number, second_number, num_sheets, all_args, result>>

\* get_signatures(first_page_of_document, num_pages, num_signatures); what it
\* returns is `signatures`
InitSig ==
    /\ Calling("get_signatures")
    /\ overflowed = "none"
    /\ first_page_of_document \in 1..MaxFirstPage
    /\ num_pages \in 1..MaxNumPages
    /\ num_signatures \in 0..MaxNumSignatures
    /\ NoKeyCall /\ NoDocumentInfo /\ NoParseArgs

GetSignatures ==
    /\ Calling("get_signatures")
    /\ pc' = "return"
    /\ UNCHANGED overflowed
    /\ UNCHANGED <<op, signature_i, key, first_page_of_document, num_pages,
                   num_signatures, first_number, second_number, num_sheets,
                   all_args, result>>

\* DocumentInfo::new(first_number, second_number), on a range parse_args accepts
InitDoc ==
    /\ Calling("DocumentInfo::new")
    /\ overflowed = "none"
    /\ first_number \in 1..MaxPage
    /\ second_number \in first_number..MaxPage
    /\ num_sheets = 0
    /\ NoKeyCall /\ NoSignaturesCall /\ NoParseArgs

DocumentInfo_new ==
    LET pages  == second_number - first_number + 1
        sheets == CeilOfF32Quotient(pages, DOC_PAGES_PER_SHEET)
        sigs   == CeilOfF32Quotient(pages, DOC_PAGES_PER_SIGNATURE)
    IN  /\ Calling("DocumentInfo::new")
        /\ pc' = "return"
        /\ UNCHANGED overflowed
        /\ num_pages' = pages
        /\ num_sheets' = sheets
        /\ num_signatures' = sigs
        /\ first_page_of_document' = first_number     \* get_signatures(first_number, ..)
        /\ UNCHANGED <<op, signature_i, key, first_number, second_number,
                       all_args, result>>

\* The first page count that is not an f32: 2^24 + 1.
F32ExactLimit == Pow(2, F32_MANTISSA_DIGITS)

\* DocumentInfo::new on documents of a little more than 2^24 pages, one page more
\* than a whole number of signatures
InitBig ==
    /\ Calling("DocumentInfo::new")
    /\ overflowed = "none"
    /\ first_number \in 1..MaxFirstPage
    /\ \E k \in 0..MaxExcess :
        second_number =
            first_number + (F32ExactLimit + (k * DOC_PAGES_PER_SIGNATURE) + 1) - 1
    /\ num_sheets = 0
    /\ NoKeyCall /\ NoSignaturesCall /\ NoParseArgs

\* DocumentInfo::new on documents of a little more than 2^28 pages, a whole number
\* of signatures: 2^28 + 48, and every fourth signature from there
InitHuge ==
    /\ Calling("DocumentInfo::new")
    /\ overflowed = "none"
    /\ first_number \in 1..MaxFirstPage
    /\ \E k \in 0..MaxExcess :
        second_number =
            first_number
            + (DOC_PAGES_PER_SIGNATURE * F32ExactLimit
               + ((4 * k + 3) * DOC_PAGES_PER_SIGNATURE)) - 1
    /\ num_sheets = 0
    /\ NoKeyCall /\ NoSignaturesCall /\ NoParseArgs

\* parse_args(all_args)
ArgChars == { "0", "1", "2", "a", "+", "-" }
ArgStrings == UNION { [1..n -> ArgChars] : n \in 0..MaxArgLen }
ProgramName == << "r", "u", "s", "t", "-", "s", "i", "g", "n", "a", "t", "u", "r", "e", "s" >>

\* the argument vectors of the tests of lib.rs, and one number above u32::MAX
TestArgs ==
    { << ProgramName, << "1" >>, << "6", "0" >> >>,
      << ProgramName, << "3", "3" >>, << "3", "3" >> >>,
      << ProgramName, << "5" >>, << "1", "8", "5" >>,
         << "a", "s", "d", "f", "a", "s", "d", "f", "a", "d" >> >>,
      << ProgramName, << "5" >> >>,
      << ProgramName, << "a", "s", "d", "f", "a", "s", "d" >>, << "6", "0" >> >>,
      << ProgramName, << "3", "4", "5" >>, << "a", "s", "d", "f", "a", "6", "0" >> >>,
      << ProgramName, << "0" >>, << "6", "0" >> >>,
      << ProgramName, << "3", "3" >>, << "3", "2" >> >>,
      << ProgramName, << "a", "b", "c" >>, << "6", "0" >> >>,
      << ProgramName, << "4", "2", "9", "4", "9", "6", "7", "2", "9", "6" >>, << "1" >> >> }

ArgVectors ==
    { << >>, << ProgramName >> }
    \cup { << ProgramName, a >> : a \in ArgStrings }
    \cup { << ProgramName, a, b >> : a \in ArgStrings, b \in ArgStrings }
    \cup { << ProgramName, a, b, c >> :
             a \in ArgStrings, b \in ArgStrings, c \in { << "a" >>, << "1" >> } }
    \cup TestArgs

InitArgs ==
    /\ Calling("parse_args")
    /\ overflowed = "none"
    /\ all_args \in ArgVectors
    /\ result = [kind |-> "none"]
    /\ NoKeyCall /\ NoSignaturesCall /\ NoDocumentInfo

ParseArgs ==
    /\ Calling("parse_args")
    /\ pc' = "return"
    /\ UNCHANGED overflowed
    /\ result' = parse_args(all_args)
    /\ UNCHANGED <<op, signature_i, key, first_page_of_document, num_pages,
                   num_signatures, first_number, second_number, num_sheets, all_args>>

SpecKey == InitKey /\ [][GetSignatureKey]_vars
SpecSig == InitSig /\ [][GetSignatures]_vars
SpecDoc == InitDoc /\ [][DocumentInfo_new]_vars
SpecLayout == (InitSig \/ InitDoc) /\ [][GetSignatures \/ DocumentInfo_new]_vars
SpecBig == InitBig /\ [][DocumentInfo_new]_vars
SpecHuge == InitHuge /\ [][DocumentInfo_new]_vars
SpecArgs == InitArgs /\ [][ParseArgs]_vars

-----------------------------------------------------------------------------
(* Properties of get_signature_key (SpecKey)                               *)

Letter(n) == ALPHABET[n + 1]
Ord(c) == CHOOSE n \in 0..(Len(ALPHABET) - 1) : Letter(n) = c

\* the bijective base-26 label of i, by its defining recurrence
RECURSIVE Label(_)
Label(i) ==
    IF i >= Len(ALPHABET)
    THEN Append(Label((i \div Len(ALPHABET)) - 1), Letter(i % Len(ALPHABET)))
    ELSE << Letter(i) >>

KeyReturned == Returned("get_signature_key")

\* C1: get_signature_key(i) is the bijective base-26 label of i over A..Z: the
\* label of (i div 26) - 1 followed by letter number (i mod 26) when i >= 26,
\* the single letter number i otherwise; with the fixed points 0 -> A, 25 -> Z,
\* 26 -> AA, 27 -> AB, 51 -> AZ, 52 -> BA, 78 -> CA, 701 -> ZZ, 702 -> AAA,
\* 703 -> AAB.
C1_KeyIsBijectiveBase26 ==
    KeyReturned =>
        /\ key = Label(signature_i)
        /\ signature_i = 0   => key = << "A" >>
        /\ signature_i = 25  => key = << "Z" >>
        /\ signature_i = 26  => key = << "A", "A" >>
        /\ signature_i = 27  => key = << "A", "B" >>
        /\ signature_i = 51  => key = << "A", "Z" >>
        /\ signature_i = 52  => key = << "B", "A" >>
        /\ signature_i = 78  => key = << "C", "A" >>
        /\ signature_i = 701 => key = << "Z", "Z" >>
        /\ signature_i = 702 => key = << "A", "A", "A" >>
        /\ signature_i = 703 => key = << "A", "A", "B" >>

C1_Witness == KeyReturned /\ signature_i = 703 /\ key = << "A", "A", "B" >>

OnlyLetters(k) == \A n \in 1..Len(k) : \E c \in 0..(Len(ALPHABET) - 1) : k[n] = Letter(c)

\* a sorts strictly before b: by length first, then lexicographically
SortsBefore(a, b) ==
    \/ Len(a) < Len(b)
    \/ /\ Len(a) = Len(b)
       /\ \E n \in 1..Len(a) :
            /\ \A m \in 1..(n - 1) : a[m] = b[m]
            /\ Ord(a[n]) < Ord(b[n])

\* C2: for index1 < index2 both keys consist of A-Z only and the key of index1
\* sorts strictly before the key of index2 (length, then lexicographic), so
\* distinct indices never share a key.  index2 is the call made, index1 ranges
\* over every smaller index.
C2_KeysStrictlyIncreasing ==
    KeyReturned =>
        /\ OnlyLetters(key)
        /\ \A index1 \in 0..(signature_i - 1) :
            /\ OnlyLetters(get_signature_key(index1))
            /\ SortsBefore(get_signature_key(index1), key)
            /\ get_signature_key(index1) # key

C2_Witness == KeyReturned /\ signature_i = 702 /\ Len(key) = 3

\* the first index whose key has length L: 26 + 26^2 + .. + 26^(L-1)
RECURSIVE BlockFirst(_)
BlockFirst(L) == IF L = 1 THEN 0 ELSE BlockFirst(L - 1) + Pow(Len(ALPHABET), L - 1)

\* C3: the indices whose key has length L are exactly the 26^L consecutive
\* indices from BlockFirst(L): 0..25 give length 1, 26..701 length 2, and 702
\* is the first of length 3.
C3_LengthBlocks ==
    KeyReturned =>
        /\ \A L \in 1..(Len(key) + 1) :
            Len(key) = L <=>
                /\ BlockFirst(L) <= signature_i
                /\ signature_i <= BlockFirst(L) + Pow(Len(ALPHABET), L) - 1
        /\ signature_i \in 0..25 <=> Len(key) = 1
        /\ signature_i \in 26..701 <=> Len(key) = 2
        /\ signature_i = 702 => Len(key) = 3

C3_Witness == KeyReturned /\ signature_i = 701 /\ Len(key) = 2

-----------------------------------------------------------------------------
(* Properties of DocumentInfo::new and get_signatures                      *)

DocReturned == Returned("DocumentInfo::new")
SigReturned == Returned("get_signatures")

\* ceiling(n / d) in whole numbers
Ceiling(n, d) == (n + d - 1) \div d

\* signatures.len()
VecLen(v) == Cardinality(DOMAIN v)

\* window i of the Vec returned
Window(i) == signatures[i]
PagesOf(w) == w.last_page - w.first_page + 1

\* C4: DocumentInfo::new(first, last) sets num_pages = last - first + 1,
\* num_sheets = ceiling(num_pages / 4), num_signatures = ceiling(num_pages / 16);
\* (1,1) -> 1,1,1; (1,60) -> 60,15,4; (12,30) -> 19,5,2.
C4_CountsAreCeilings ==
    DocReturned =>
        /\ num_pages = second_number - first_number + 1
        /\ num_sheets = Ceiling(num_pages, DOC_PAGES_PER_SHEET)
        /\ num_signatures = Ceiling(num_pages, DOC_PAGES_PER_SIGNATURE)
        /\ (first_number = 1 /\ second_number = 1)
            => (num_pages = 1 /\ num_sheets = 1 /\ num_signatures = 1)
        /\ (first_number = 1 /\ second_number = 60)
            => (num_pages = 60 /\ num_sheets = 15 /\ num_signatures = 4)
        /\ (first_number = 12 /\ second_number = 30)
            => (num_pages = 19 /\ num_sheets = 5 /\ num_signatures = 2)

\* the pages of windows 0..n-1 added up
RECURSIVE SumPages(_)
SumPages(n) == IF n = 0 THEN 0 ELSE PagesOf(Window(n - 1)) + SumPages(n - 1)

\* C5: the signatures of DocumentInfo::new(first, last) tile the range: the first
\* window starts at first, the last window ends at last, each window's
\* last_page + 1 is the next window's first_page, and the window sizes add up
\* to num_pages.
C5_WindowsTileTheRange ==
    DocReturned =>
        /\ num_signatures >= 1
        /\ Window(0).first_page = first_number
        /\ Window(num_signatures - 1).last_page = second_number
        /\ \A i \in 0..(num_signatures - 2) :
            Window(i).last_page + 1 = Window(i + 1).first_page
        /\ SumPages(num_signatures) = num_pages

\* the windows of `signatures` are in page order, each follows the one before
\* without a gap, and their pages are exactly first..last
CoversExactly(first, last) ==
    /\ \A i \in DOMAIN signatures : Window(i).first_page <= Window(i).last_page
    /\ \A i \in DOMAIN signatures : \A j \in DOMAIN signatures :
        i < j => Window(i).last_page < Window(j).first_page
    /\ \A i \in DOMAIN signatures :
        (i + 1) \in DOMAIN signatures
            => Window(i).last_page + 1 = Window(i + 1).first_page
    /\ UNION { Window(i).first_page .. Window(i).last_page : i \in DOMAIN signatures }
        = first..last

\* C6 as stated: for every positive first_page_of_document and num_pages and
\* every num_signatures >= 0, the windows get_signatures returns are contiguous,
\* ordered and cover exactly first_page_of_document ..
\* first_page_of_document + num_pages - 1.
C6_AnySignatureCountCovers ==
    SigReturned =>
        CoversExactly(first_page_of_document, first_page_of_document + num_pages - 1)

\* C6 amended: the same, for num_signatures = ceiling(num_pages / 16).
C6_CeilingSignatureCountCovers ==
    (SigReturned /\ num_signatures = Ceiling(num_pages, DOC_PAGES_PER_SIGNATURE)) =>
        CoversExactly(first_page_of_document, first_page_of_document + num_pages - 1)

C6_Witness ==
    /\ SigReturned
    /\ first_page_of_document = 5 /\ num_pages = 40 /\ num_signatures = 3
    /\ Window(2).first_page = 37 /\ Window(2).last_page = 44

\* C7: get_signatures returns exactly num_signatures windows (none when
\* num_signatures is 0), window i carrying get_signature_key(i); so in every
\* DocumentInfo the length of signatures is num_signatures and the keys run in
\* index order from A.
C7_OneWindowPerSignature ==
    (SigReturned \/ DocReturned) =>
        /\ VecLen(signatures) = num_signatures
        /\ DOMAIN signatures = 0..(num_signatures - 1)
        /\ num_signatures = 0 => signatures = << >>
        /\ \A i \in DOMAIN signatures :
            /\ Window(i).signature_key = get_signature_key(i)
            /\ Window(i).signature_key = Label(i)
        /\ num_signatures >= 1 => Window(0).signature_key = << "A" >>

C7_Witness ==
    /\ DocReturned
    /\ first_number = 1 /\ second_number = 60
    /\ VecLen(signatures) = 4
    /\ Window(3).signature_key = << "D" >>

\* C8: every window of DocumentInfo::new(first, last) has
\* first_page <= last_page, first <= first_page and last_page <= last.  (The last
\* window, the one cut back to the document, is looked at first.)
InsideDocument(w) ==
    /\ w.first_page <= w.last_page
    /\ first_number <= w.first_page
    /\ w.last_page <= second_number

C8_WindowsInsideDocument ==
    DocReturned =>
        /\ num_signatures >= 1 => InsideDocument(Window(num_signatures - 1))
        /\ \A i \in 0..(num_signatures - 1) : InsideDocument(Window(i))

-----------------------------------------------------------------------------
(* Properties of parse_args (SpecArgs)                                     *)

ParseReturned == Returned("parse_args")

\* str is a decimal numeral of a u32: digits, after at most one '+'
IsNumeral(str) ==
    LET body == IF str # << >> /\ Head(str) = "+" THEN Tail(str) ELSE str
    IN  /\ body # << >>
        /\ \A n \in 1..Len(body) : IsDigit(body[n])
        /\ ~ExceedsU32(body)

\* the number a numeral writes: digit n from the right counts 10^(n-1)
RECURSIVE NumeralValue(_)
NumeralValue(str) ==
    IF str = << >> THEN 0
    ELSE IF Head(str) = "+" THEN NumeralValue(Tail(str))
    ELSE (DigitValue(Head(str)) * Pow(10, Len(str) - 1)) + NumeralValue(Tail(str))

\* the checks in the order claimed, on a vector that holds the program name:
\* the first that fails, or "Ok"
FirstFailingCheck(v) ==
    IF Len(v) - 1 < 2 THEN "fewer than two arguments"
    ELSE IF ~IsNumeral(v[2]) THEN "first not a number"
    ELSE IF ~IsNumeral(v[3]) THEN "second not a number"
    ELSE IF NumeralValue(v[2]) = 0 THEN "page zero"
    ELSE IF NumeralValue(v[3]) < NumeralValue(v[2]) THEN "range order"
    ELSE "Ok"

\* what the Result of parse_args reports
Reported(r) ==
    CASE r.kind = "NeedTwoArgumentsError" -> "fewer than two arguments"
      [] r.kind = "ParseIntError" /\ r.of = "first_arg" -> "first not a number"
      [] r.kind = "ParseIntError" /\ r.of = "second_arg" -> "second not a number"
      [] r.kind = "PageZeroError" -> "page zero"
      [] r.kind = "SecondNumberGreaterError" -> "range order"
      [] OTHER -> r.kind

Arguments(v) == Tail(v)

\* C9: parse_args reports the first failing check in the order: fewer than two
\* arguments, first argument not a number, second argument not a number, first
\* page 0, second page smaller than first; ("0","60") gives the page-zero
\* error, ("33","32") the range-order error, ("abc","60") the malformed-first
\* error.  Stated for argument vectors that hold the program name.
C9_FirstFailingCheckReported ==
    (ParseReturned /\ all_args # << >>) =>
        /\ Reported(result) = FirstFailingCheck(all_args)
        /\ Arguments(all_args) = << << "0" >>, << "6", "0" >> >>
            => result.kind = "PageZeroError"
        /\ Arguments(all_args) = << << "3", "3" >>, << "3", "2" >> >>
            => result.kind = "SecondNumberGreaterError"
        /\ Arguments(all_args) = << << "a", "b", "c" >>, << "6", "0" >> >>
            => (result.kind = "ParseIntError" /\ result.of = "first_arg")

\* both arguments are no numbers, and the first is the one reported
C9_Witness ==
    /\ ParseReturned
    /\ all_args # << >>
    /\ Arguments(all_args) = << << "a" >>, << "-", "1" >> >>
    /\ result.kind = "ParseIntError" /\ result.of = "first_arg"

\* C10: parse_args returns Ok((first, second)) exactly when the first two
\* arguments after the program name both parse as numbers with first >= 1 and
\* second >= first (equal is accepted); the pair is those two numbers, and
\* arguments after the second change nothing.
C10_OkExactlyOnValidRange ==
    ParseReturned =>
        /\ result.kind = "Ok" <=>
            /\ Len(all_args) >= 3
            /\ IsNumeral(all_args[2]) /\ IsNumeral(all_args[3])
            /\ NumeralValue(all_args[2]) >= 1
            /\ NumeralValue(all_args[3]) >= NumeralValue(all_args[2])
        /\ result.kind = "Ok" =>
            result.value = << NumeralValue(all_args[2]), NumeralValue(all_args[3]) >>
        /\ Len(all_args) >= 3 => result = parse_args(SubSeq(all_args, 1, 3))

\* the same page twice, and a third argument that is ignored
C10_Witness ==
    /\ ParseReturned
    /\ Len(all_args) = 4
    /\ all_args[2] = << "1", "2" >> /\ all_args[3] = << "1", "2" >>
    /\ result = [kind |-> "Ok", value |-> << 12, 12 >>]

-----------------------------------------------------------------------------
(* Display of NeedTwoArgumentsError                                        *)

\* <NeedTwoArgumentsError as Display>::fmt: the text written, as the literal
\* and the arguments shown by {:?}; "panic" when &self.received_args[1..] is
\* out of range
fmt_NeedTwoArgumentsError(received_args) ==
    IF Len(received_args) < 1 THEN [kind |-> "panic"]
    ELSE [kind |-> "Ok",
          text |-> << "Need at least two arguments to run! Got: ", Tail(received_args) >>]

\* C11: on every argument vector with fewer than two arguments after the
\* program name (program name and one argument, program name alone, or an empty
\* vector) parse_args returns the insufficient-arguments error as an Err value,
\* and formatting that error succeeds with a text that starts with
\* "Need at least two arguments to run!"; it never panics.
C11_TooFewArgumentsIsAnErr ==
    (ParseReturned /\ Len(all_args) < 3) =>
        /\ result.kind # "panic"
        /\ result.kind = "NeedTwoArgumentsError"
        /\ fmt_NeedTwoArgumentsError(result.received_args).kind = "Ok"
        /\ fmt_NeedTwoArgumentsError(result.received_args).text[1]
            = "Need at least two arguments to run! Got: "

-----------------------------------------------------------------------------
(* DocumentInfo::new over the whole of u32.  A number is held as two 16-bit *)
(* limbs, [hi, lo] for hi * 2^16 + lo, so that sums up to 2^32 and beyond   *)
(* can be formed and seen to leave u32: a value is a u32 when               *)
(* 0 <= hi < 2^16.                                                         *)

LIMB == Pow(2, 16)

\* hi * 2^16 + lo with lo brought back into 0..2^16-1
Carry(hi, lo) == [hi |-> hi + (lo \div LIMB), lo |-> lo % LIMB]
Wide(n) == Carry(0, n)
WideAdd(a, b) == Carry(a.hi + b.hi, a.lo + b.lo)
WideSub(a, b) == Carry(a.hi - b.hi, a.lo - b.lo)
WideMul(a, k) == Carry(a.hi * k, a.lo * k)
InU32(w) == 0 <= w.hi /\ w.hi < LIMB
U32_MAX == [hi |-> LIMB - 1, lo |-> LIMB - 1]

WideBitLen(w) == IF w.hi = 0 THEN BitLen(w.lo) ELSE 16 + BitLen(w.hi)

\* `w as f32` (see AsF32) for a u32 held in limbs; the f32 may be 2^32
AsF32Wide(w) ==
    IF WideBitLen(w) <= F32_MANTISSA_DIGITS THEN w
    ELSE LET ulp == Pow(2, WideBitLen(w) - F32_MANTISSA_DIGITS)
             q   == (w.hi * (LIMB \div ulp)) + (w.lo \div ulp)
             r   == w.lo % ulp
         IN  IF 2 * r < ulp \/ (2 * r = ulp /\ q % 2 = 0)
             THEN WideMul(Wide(q), ulp)
             ELSE WideMul(Wide(q + 1), ulp)

\* (w as f32 / d as f32).ceil() as u32 (see CeilOfF32Quotient), d = 4 or 16
CeilOfF32QuotientWide(w, d) ==
    LET x == AsF32Wide(w)
    IN  (x.hi * (LIMB \div d)) + (x.lo \div d) + (IF x.lo % d = 0 THEN 0 ELSE 1)

\* DocumentInfo::new(first_number, second_number) and the get_signatures call in
\* it, every u32 expression in the order the code evaluates it.  The
\* expressions of the loop grow with i, so the last iteration,
\* i = num_signatures - 1, decides whether one of them leaves u32.  An
\* overflow panics in a build with overflow checks and wraps around in one
\* without.
DocumentInfo_new_u32 ==
    LET diff   == WideSub(second_number, first_number)          \* line 74
        pages  == WideAdd(diff, Wide(1))
        sheets == CeilOfF32QuotientWide(pages, DOC_PAGES_PER_SHEET)
        sigs   == CeilOfF32QuotientWide(pages, DOC_PAGES_PER_SIGNATURE)
        sum    == WideAdd(first_number, pages)                  \* line 127
        times  == WideMul(Wide(sigs), DOC_PAGES_PER_SIGNATURE)  \* line 130, (i + 1) * 16
        upto   == WideAdd(times, first_number)
        from   == WideAdd(WideMul(Wide(sigs - 1), DOC_PAGES_PER_SIGNATURE),
                          first_number)                         \* line 132
        first_overflow ==
            IF ~InU32(diff) THEN "second_number - first_number"
            ELSE IF ~InU32(pages) THEN "second_number - first_number + 1"
            ELSE IF ~InU32(sum) THEN "first_page_of_document + num_pages"
            ELSE IF ~InU32(WideSub(sum, Wide(1)))
            THEN "first_page_of_document + num_pages - 1"
            ELSE IF sigs >= 1 /\ ~InU32(times) THEN "(i + 1) * DOC_PAGES_PER_SIGNATURE"
            ELSE IF sigs >= 1 /\ ~InU32(upto)
            THEN "(i + 1) * DOC_PAGES_PER_SIGNATURE + first_page_of_document"
            ELSE IF sigs >= 1 /\ ~InU32(WideSub(upto, Wide(1)))
            THEN "(i + 1) * DOC_PAGES_PER_SIGNATURE + first_page_of_document - 1"
            ELSE IF sigs >= 1 /\ ~InU32(from)
            THEN "DOC_PAGES_PER_SIGNATURE * i + first_page_of_document"
            ELSE "none"
    IN  /\ Calling("DocumentInfo::new")
        /\ num_pages' = pages
        /\ num_sheets' = sheets
        /\ num_signatures' = sigs
        /\ first_page_of_document' = first_number
        /\ overflowed' = first_overflow
        /\ pc' \in (IF first_overflow = "none" THEN { "return" } ELSE { "panic", "return" })
        /\ UNCHANGED <<op, signature_i, key, first_number, second_number,
                       all_args, result>>

\* validated ranges of small pages and ranges that end at the top of u32
InitU32 ==
    /\ Calling("DocumentInfo::new")
    /\ overflowed = "none"
    /\ \E first \in 1..MaxFirstPage :
        /\ first_number = Wide(first)
        /\ \/ \E second \in first..MaxPage : second_number = Wide(second)
           \/ \E below \in 0..MaxBelowTop : second_number = WideSub(U32_MAX, Wide(below))
    /\ num_sheets = 0
    /\ NoKeyCall /\ NoSignaturesCall /\ NoParseArgs

SpecU32 == InitU32 /\ [][DocumentInfo_new_u32]_vars

\* C12: for every 32-bit unsigned first >= 1 and last >= first, no u32 expression
\* of DocumentInfo::new or get_signatures (last - first + 1,
\* first + num_pages - 1, (i + 1) * 16 + first - 1, 16 * i + first) overflows or
\* underflows, and the call completes with a result.
C12_NoOverflowOnValidatedRange ==
    (op = "DocumentInfo::new" /\ pc # "call") =>
        /\ overflowed = "none"
        /\ pc = "return"

-----------------------------------------------------------------------------
(* The windows of get_signatures over the whole of u32, in a build without *)
(* overflow checks: every +, - and * keeps the low 32 bits of its result.  *)

\* the low 32 bits of w
Wrap(w) == [hi |-> w.hi % LIMB, lo |-> w.lo]
WideLess(a, b) == a.hi < b.hi \/ (a.hi = b.hi /\ a.lo < b.lo)
WideMin(a, b) == IF WideLess(a, b) THEN a ELSE b

\* the Signature pushed for index i (see Signature), first_page and pages held
\* in limbs
Signature_u32(first_page, pages, i) ==
    LET last_page_of_document  ==
            Wrap(WideSub(Wrap(WideAdd(first_page, pages)), Wide(1)))
        last_page_of_signature ==
            Wrap(WideSub(Wrap(WideAdd(Wrap(WideMul(Wide(i + 1), DOC_PAGES_PER_SIGNATURE)),
                                      first_page)),
                         Wide(1)))
    IN  [ first_page    |-> Wrap(WideAdd(Wrap(WideMul(Wide(i), DOC_PAGES_PER_SIGNATURE)),
                                         first_page)),
          last_page     |-> IF WideLess(last_page_of_signature, last_page_of_document)
                            THEN last_page_of_signature
                            ELSE last_page_of_document,
          signature_key |-> get_signature_key(i) ]

\* window i of DocumentInfo.signatures after DocumentInfo_new_u32 returned
Window_u32(i) == Signature_u32(first_page_of_document, num_pages, i)

\* first_page_of_document + 16 * i, in whole numbers
WindowFirstPage(i) ==
    WideAdd(first_page_of_document, WideMul(Wide(i), DOC_PAGES_PER_SIGNATURE))

\* min(first_page_of_document + 16 * (i + 1) - 1,
\*     first_page_of_document + num_pages - 1), in whole numbers
WindowLastPage(i) ==
    WideMin(WideSub(WideAdd(first_page_of_document,
                            WideMul(Wide(i + 1), DOC_PAGES_PER_SIGNATURE)),
                    Wide(1)),
            WideSub(WideAdd(first_page_of_document, num_pages), Wide(1)))

WindowAsComputed(i) ==
    /\ Window_u32(i).first_page = WindowFirstPage(i)
    /\ Window_u32(i).last_page = WindowLastPage(i)

\* C13: for every signature index i in 0 .. num_signatures - 1, window i of
\* get_signatures has first_page = first_page_of_document + 16 * i and
\* last_page = min(first_page_of_document + 16 * (i + 1) - 1,
\* first_page_of_document + num_pages - 1); first 5, 19 pages, 2 signatures
\* gives [5,20], [21,23].  Stated for the get_signatures call of
\* DocumentInfo::new where the call returns; the last window is looked at
\* first.
C13_WindowsFollowTheFormula ==
    (op = "DocumentInfo::new" /\ pc = "return") =>
        /\ num_signatures >= 1 => WindowAsComputed(num_signatures - 1)
        /\ \A i \in 0..(num_signatures - 1) : WindowAsComputed(i)
        /\ (first_number = Wide(5) /\ second_number = Wide(23)) =>
            /\ num_signatures = 2
            /\ Window_u32(0).first_page = Wide(5) /\ Window_u32(0).last_page = Wide(20)
            /\ Window_u32(1).first_page = Wide(21) /\ Window_u32(1).last_page = Wide(23)

-----------------------------------------------------------------------------
(* Sizes of the windows of DocumentInfo::new                               *)

\* the pages the last window holds when the windows are cut from num_pages
\* sixteen at a time
PagesOfLastWindow ==
    IF num_pages % DOC_PAGES_PER_SIGNATURE = 0
    THEN DOC_PAGES_PER_SIGNATURE
    ELSE num_pages % DOC_PAGES_PER_SIGNATURE

\* C14: in the result of DocumentInfo::new(first, last) every window except the
\* last spans exactly 16 pages, and the last window spans between 1 and 16 pages:
\* 16 when num_pages is a multiple of 16, otherwise num_pages mod 16.  (The last
\* window is looked at first.)
C14_WindowSizes ==
    DocReturned =>
        /\ num_signatures >= 1
        /\ PagesOf(Window(num_signatures - 1)) >= 1
        /\ PagesOf(Window(num_signatures - 1)) <= DOC_PAGES_PER_SIGNATURE
        /\ PagesOf(Window(num_signatures - 1)) = PagesOfLastWindow
        /\ \A i \in 0..(num_signatures - 2) :
            PagesOf(Window(i)) = DOC_PAGES_PER_SIGNATURE

-----------------------------------------------------------------------------
(* The copy of the program in src/src/main.rs.  Its errors are Strings: a  *)
(* message is held as the pieces format! puts together, the literal text   *)
(* first.                                                                  *)

\* the loop of main.rs's get_signature_key
RECURSIVE main_key_loop(_, _)
main_key_loop(i, k) ==
    LET remainder == i % Len(ALPHABET)
        pushed    == Append(k, ALPHABET[remainder + 1])
        divided   == i \div Len(ALPHABET)
    IN  IF divided = 0 THEN pushed ELSE main_key_loop(divided - 1, pushed)

main_get_signature_key(i) == Reverse(main_key_loop(i, << >>))

main_Signature(first_page, pages, i) ==
    LET last_page_of_document  == first_page + pages - 1
        last_page_of_signature == ((i + 1) * DOC_PAGES_PER_SIGNATURE) + first_page - 1
    IN  [ first_page    |-> (DOC_PAGES_PER_SIGNATURE * i) + first_page,
          last_page     |-> IF last_page_of_signature < last_page_of_document
                            THEN last_page_of_signature
                            ELSE last_page_of_document,
          signature_key |-> main_get_signature_key(i) ]

main_get_signatures(first_page, pages, signatures_wanted) ==
    [i \in 0..(signatures_wanted - 1) |-> main_Signature(first_page, pages, i)]

\* the DocumentInfo main.rs's DocumentInfo::new returns
main_DocumentInfo_new(first, second) ==
    LET pages  == second - first + 1
        sheets == CeilOfF32Quotient(pages, DOC_PAGES_PER_SHEET)
        sigs   == CeilOfF32Quotient(pages, DOC_PAGES_PER_SIGNATURE)
    IN  [ num_pages      |-> pages,
          num_sheets     |-> sheets,
          num_signatures |-> sigs,
          signatures     |-> main_get_signatures(first, pages, sigs) ]

\* <ParseIntError as Display>: parse_error.to_string()
ParseIntError_to_string(error) ==
    CASE error = "Empty"        -> "cannot parse integer from empty string"
      [] error = "InvalidDigit" -> "invalid digit found in string"
      [] error = "PosOverflow"  -> "number too large to fit in target type"

\* main.rs's parse_args without the `first_number == 0` check
main_parse_args_zero_accepted(args_given) ==
    IF Len(args_given) < 1 THEN [kind |-> "panic"]
    ELSE LET args == Tail(args_given)
         IN  IF Len(args) < 2
             THEN [kind |-> "Err",
                   msg  |-> << "Need at least two arguments to run! Got: ", args >>]
             ELSE LET first  == ParseU32(args[1])
                      second == ParseU32(args[2])
                  IN  IF ~first.ok
                      THEN [kind |-> "Err",
                            msg  |-> << "Couldn't parse the first argument, '", args[1],
                                        "', to a number. Got error: ",
                                        ParseIntError_to_string(first.error) >>]
                      ELSE IF ~second.ok
                      THEN [kind |-> "Err",
                            msg  |-> << "Couldn't parse the second argument, '", args[2],
                                        "', to a number. Got error: ",
                                        ParseIntError_to_string(second.error) >>]
                      ELSE IF second.value < first.value
                      THEN [kind |-> "Err",
                            msg  |-> << "The second number must be greater than or equal to the first! ",
                                        first.value, " > ", second.value, "." >>]
                      ELSE [kind |-> "Ok", value |-> << first.value, second.value >>]

\* main.rs's parse_args(all_args): Ok((first_number, second_number)), Err(msg),
\* or "panic" when the slice &all_args[1..] of an empty vector is out of range
main_parse_args(args_given) ==
    IF Len(args_given) < 1 THEN [kind |-> "panic"]
    ELSE LET args == Tail(args_given)
         IN  IF Len(args) < 2
             THEN [kind |-> "Err",
                   msg  |-> << "Need at least two arguments to run! Got: ", args >>]
             ELSE LET first  == ParseU32(args[1])
                      second == ParseU32(args[2])
                  IN  IF ~first.ok
                      THEN [kind |-> "Err",
                            msg  |-> << "Couldn't parse the first argument, '", args[1],
                                        "', to a number. Got error: ",
                                        ParseIntError_to_string(first.error) >>]
                      ELSE IF ~second.ok
                      THEN [kind |-> "Err",
                            msg  |-> << "Couldn't parse the second argument, '", args[2],
                                        "', to a number. Got error: ",
                                        ParseIntError_to_string(second.error) >>]
                      ELSE IF first.value = 0
                      THEN [kind |-> "Err",
                            msg  |-> << "There is no page zero! Received ", first.value,
                                        " as the first number." >>]
                      ELSE IF second.value < first.value
                      THEN [kind |-> "Err",
                            msg  |-> << "The second number must be greater than or equal to the first! ",
                                        first.value, " > ", second.value, "." >>]
                      ELSE [kind |-> "Ok", value |-> << first.value, second.value >>]

\* every function of lib.rs, called on the arguments of the specifications above
SpecBoth ==
    /\ InitKey \/ InitSig \/ InitDoc \/ InitArgs
    /\ [][GetSignatureKey \/ GetSignatures \/ DocumentInfo_new \/ ParseArgs]_vars

\* the check an Err of lib.rs's parse_args comes from
LibCheck(r) ==
    CASE r.kind = "NeedTwoArgumentsError" -> "insufficient arguments"
      [] r.kind = "ParseIntError" /\ r.of = "first_arg" -> "first not a number"
      [] r.kind = "ParseIntError" /\ r.of = "second_arg" -> "second not a number"
      [] r.kind = "PageZeroError" -> "page zero"
      [] r.kind = "SecondNumberGreaterError" -> "range order"

\* the check an Err of main.rs's parse_args comes from, by the text of its message
MainCheck(r) ==
    CASE r.msg[1] = "Need at least two arguments to run! Got: " -> "insufficient arguments"
      [] r.msg[1] = "Couldn't parse the first argument, '" -> "first not a number"
      [] r.msg[1] = "Couldn't parse the second argument, '" -> "second not a number"
      [] r.msg[1] = "There is no page zero! Received " -> "page zero"
      [] r.msg[1] = "The second number must be greater than or equal to the first! "
            -> "range order"

\* C15: the two copies of the program agree.  On every input main.rs's
\* get_signature_key, get_signatures and DocumentInfo::new return what their
\* lib.rs counterparts returned, and main.rs's parse_args returns Ok with the
\* same pair exactly when lib.rs's does and otherwise fails at the same check
\* (both panic on the empty vector).
C15_CopiesAgree ==
    /\ KeyReturned => main_get_signature_key(signature_i) = key
    /\ SigReturned =>
        main_get_signatures(first_page_of_document, num_pages, num_signatures) = signatures
    /\ DocReturned =>
        main_DocumentInfo_new(first_number, second_number)
            = [ num_pages      |-> num_pages,
                num_sheets     |-> num_sheets,
                num_signatures |-> num_signatures,
                signatures     |-> signatures ]
    /\ ParseReturned =>
        LET main_result == main_parse_args(all_args)
        IN  /\ main_result.kind = "panic" <=> result.kind = "panic"
            /\ main_result.kind = "Ok" <=> result.kind = "Ok"
            /\ result.kind = "Ok" => main_result.value = result.value
            /\ main_result.kind = "Err" => MainCheck(main_result) = LibCheck(result)

C15_Witness ==
    /\ ParseReturned
    /\ all_args = << ProgramName, << "0" >>, << "a" >> >>
    /\ result = [kind |-> "ParseIntError", of |-> "second_arg", error |-> "InvalidDigit"]
    /\ main_parse_args(all_args).kind = "Err"
    /\ MainCheck(main_parse_args(all_args)) = "second not a number"

=============================================================================
